---- MODULE Spec2Model ----
(***************************************************************************)
(* FinSIGHT analysis core: finance/services/time_series_analyzer.py.       *)
(*                                                                         *)
(*   ForecastEngine.forecast_next_month / _calculate_occurrences           *)
(*   TimeSeriesAnalyzer.detect_recurring_patterns                          *)
(*   TimeSeriesAnalyzer.detect_anomalies                                   *)
(*   TimeSeriesAnalyzer._detect_frequency / _calculate_confidence          *)
(*   TimeSeriesAnalyzer: sessions of calls on one loaded analyzer          *)
(*   finance/views.py: detect_recurring_payments, confirm_recurring_payment*)
(*                                                                         *)
(* Calendar dates are proleptic Gregorian ordinals (datetime.date          *)
(* .toordinal(): 0001-01-01 is day 1, a Monday).  Money is an integer      *)
(* number of cents for transactions (DecimalField, two decimal places) and *)
(* whole currency units for the test's Rent payment; a payment confirmed   *)
(* from a detected pattern carries the pattern's amount, in cents.         *)
(***************************************************************************)
EXTENDS Integers, Sequences, FiniteSets, TLC

VARIABLES
    \* ---- ForecastEngine ----
    today,               \* datetime.now().date() read by forecast_next_month
    payment,             \* the RecurringPayment row of the user
    pc,                  \* control point of the running call
    error,               \* "" or the name of the exception that left the call
    current_date,        \* local cursor of _calculate_occurrences
    payment_date,        \* local of _calculate_occurrences: {} while unbound
    occurrences,         \* local result list of _calculate_occurrences
    prev_date,           \* cursor at the start of the latest loop iteration ({} before the first)
    deterministic_spend, \* forecast['deterministic_spend']
    payment_schedule,    \* forecast['payment_schedule']
    \* ---- TimeSeriesAnalyzer ----
    df,                  \* the loaded DataFrame: rows sorted by date
    n_std,               \* detect_anomalies argument
    window,              \* detect_anomalies argument
    group_idx,           \* position of the groupby loop of detect_recurring_patterns
    patterns,            \* result list of detect_recurring_patterns
    anomalies,           \* result list of detect_anomalies
    \* ---- _detect_frequency / _calculate_confidence ----
    intervals,           \* the gaps in days handed to _detect_frequency
    frequency,           \* its result: a frequency name, "" for None
    confidence,          \* result of _calculate_confidence, -1 before the call
    \* ---- a session of calls on one loaded TimeSeriesAnalyzer ----
    history,             \* names of the calls made so far, latest last
    discretionary,       \* latest result of get_discretionary_spending
    threshold_info,      \* latest result of calculate_spending_threshold
    seasonality,         \* latest result of analyze_seasonality
    \* ---- the database and the rest of the forecast ----
    transactions,        \* the user's Transaction rows
    avg_daily_discretionary,  \* forecast['avg_daily_discretionary']
    projected_discretionary,  \* forecast['projected_discretionary']
    total_forecast,      \* forecast['total_forecast']
    \* ---- detection, confirmation and the payments the forecast reads ----
    pending,             \* the PendingRecurringConfirmation rows
    recurring_payments,  \* the RecurringPayment rows
    queue,               \* the selected payments the forecast loop has not reached yet
    request              \* the latest request served by a view

fvars == <<today, payment, pc, error, current_date, payment_date, occurrences,
           prev_date, deterministic_spend, payment_schedule>>
avars == <<df, n_std, window, group_idx, patterns, anomalies>>
cvars == <<intervals, frequency, confidence>>
\* the variables outside the forecast engine and the two detectors
svars == <<history, discretionary, threshold_info, seasonality>>
\* the variables of the forecast engine apart from pc and error
flocals == <<today, payment, current_date, payment_date, occurrences,
             prev_date, deterministic_spend, payment_schedule>>
rvars == <<transactions, avg_daily_discretionary, projected_discretionary,
           total_forecast>>
wvars == <<pending, recurring_payments, queue, request>>
xvars == <<cvars, svars, rvars, wvars>>
vars == <<today, payment, pc, error, current_date, payment_date, occurrences,
          prev_date, deterministic_spend, payment_schedule,
          df, n_std, window, group_idx, patterns, anomalies,
          intervals, frequency, confidence,
          history, discretionary, threshold_info, seasonality,
          transactions, avg_daily_discretionary, projected_discretionary,
          total_forecast, pending, recurring_payments, queue, request>>

(***************************************************************************)
(* Small helpers                                                           *)
(***************************************************************************)
Abs(x) == IF x < 0 THEN -x ELSE x

MaxOf(a, b) == IF a >= b THEN a ELSE b

Range(s) == {s[i] : i \in 1..Len(s)}

RECURSIVE SumSeq(_)
SumSeq(s) == IF s = <<>> THEN 0 ELSE Head(s) + SumSeq(Tail(s))

(***************************************************************************)
(* Calendar: datetime.date                                                 *)
(***************************************************************************)
IsLeap(y) == y % 4 = 0 /\ (y % 100 # 0 \/ y % 400 = 0)

DaysInMonth(y, m) ==
    IF m = 2 THEN (IF IsLeap(y) THEN 29 ELSE 28)
    ELSE IF m \in {4, 6, 9, 11} THEN 30 ELSE 31

DaysBeforeMonth(y, m) ==
    <<0, 31, 59, 90, 120, 151, 181, 212, 243, 273, 304, 334>>[m]
      + (IF m > 2 /\ IsLeap(y) THEN 1 ELSE 0)

DaysBeforeYear(y) ==
    (y - 1) * 365 + ((y - 1) \div 4) - ((y - 1) \div 100) + ((y - 1) \div 400)

\* date(y, m, d).toordinal(), for a valid date
ToOrdinal(y, m, d) == DaysBeforeYear(y) + DaysBeforeMonth(y, m) + d

\* date(y, m, d) can be constructed (otherwise the constructor raises ValueError)
ValidDate(y, m, d) == m \in 1..12 /\ d >= 1 /\ d <= DaysInMonth(y, m)

RECURSIVE YearFrom(_, _)
YearFrom(n, y) == IF DaysBeforeYear(y + 1) < n THEN YearFrom(n, y + 1) ELSE y

Year(n) == YearFrom(n, ((n - 1) \div 366) + 1)

RECURSIVE MonthFrom(_, _, _)
MonthFrom(n, y, m) ==
    IF m < 12 /\ DaysBeforeYear(y) + DaysBeforeMonth(y, m + 1) < n
    THEN MonthFrom(n, y, m + 1) ELSE m

Month(n) == MonthFrom(n, Year(n), 1)

Day(n) == n - DaysBeforeYear(Year(n)) - DaysBeforeMonth(Year(n), Month(n))

\* date.weekday(): Monday = 0 .. Sunday = 6
Weekday(n) == (n + 6) % 7

\* date.replace(year=y, month=m, day=d): {} stands for the ValueError
Replace(y, m, d) == IF ValidDate(y, m, d) THEN {ToOrdinal(y, m, d)} ELSE {}

The(S) == CHOOSE x \in S : TRUE

(***************************************************************************)
(* Model bounds and program constants                                      *)
(***************************************************************************)
\* reference dates: NumDays consecutive days starting on 1 January FirstYear
FirstYear == 2024
NumDays == 366

HorizonDays == 30        \* forecast_end = today + timedelta(days=30)
YearBack == 365          \* start_date = today - timedelta(days=365)
RentAmount == 1200       \* amount of the 'Rent' payment

\* the model follows a call until its result list holds MaxOccurrences dates
\* (a 31-day window holds at most 5 dates of one weekday)
MaxOccurrences == 6

TodaySet == {ToOrdinal(FirstYear, 1, 1) + k : k \in 0..(NumDays - 1)}

Frequencies == {"monthly", "weekly", "biweekly", "quarterly", "annual"}

\* due_day is an unvalidated IntegerField: day of month, or day of week
MonthDueDays == {0, 1, 15, 29, 30, 31, 32}
WeekDueDays == (0..6) \cup {-8}

DueDays(f) == IF f \in {"weekly", "biweekly"} THEN WeekDueDays ELSE MonthDueDays

\* RecurringPayment rows for a reference date t.  end_date is {} for NULL.
PaymentSet(t) ==
    {[name |-> "Rent", amount |-> RentAmount, frequency |-> f, due_day |-> dd,
      start_date |-> sd, end_date |-> ed,
      is_active |-> fl[1], confirmed_by_user |-> fl[2]] :
        f \in Frequencies, dd \in MonthDueDays \cup WeekDueDays,
        sd \in {t - YearBack, t + 10}, ed \in {{}, {t + 5}},
        fl \in {<<TRUE, TRUE>>, <<TRUE, FALSE>>, <<FALSE, TRUE>>}}

\* the rows the model starts from: every shape for a confirmed active payment,
\* and the test's Rent payment for an unconfirmed or inactive one
InitPayments(t) ==
    {p \in PaymentSet(t) :
        /\ p.due_day \in DueDays(p.frequency)
        /\ (~(p.is_active /\ p.confirmed_by_user) =>
              /\ p.frequency = "monthly" /\ p.due_day = 1
              /\ p.start_date = t - YearBack /\ p.end_date = {})}

NoPayment ==
    [name |-> "", amount |-> 0, frequency |-> "", due_day |-> 0,
     start_date |-> 0, end_date |-> {}, is_active |-> FALSE,
     confirmed_by_user |-> FALSE]

(***************************************************************************)
(* ForecastEngine                                                          *)
(***************************************************************************)
forecast_end == today + HorizonDays

\* sorted(payment_schedule, key=lambda x: x['date']): stable insertion
RECURSIVE InsertByDate(_, _)
InsertByDate(e, s) ==
    IF s = <<>> THEN <<e>>
    ELSE IF e.date < Head(s).date THEN <<e>> \o s
    ELSE <<Head(s)>> \o InsertByDate(e, Tail(s))

RECURSIVE SortByDate(_)
SortByDate(s) ==
    IF s = <<>> THEN <<>>
    ELSE InsertByDate(s[Len(s)], SortByDate(SubSeq(s, 1, Len(s) - 1)))

ScheduleEntry(p, d) == [date |-> d, name |-> p.name, amount |-> p.amount]

\* the filter of forecast_next_month: is_active=True, confirmed_by_user=True
Selected(p) == p.is_active /\ p.confirmed_by_user

\* payment.end_date and current_date > payment.end_date
PastEnd(p, cur) == p.end_date # {} /\ cur > The(p.end_date)

\* start_date <= payment_date <= end_date
InWindow(d) == today <= d /\ d <= forecast_end

\* occurrences.append(payment_date) under the window test; pd is {} when the
\* date could not be constructed
Collect(occ, pd) ==
    IF pd # {} /\ InWindow(The(pd)) THEN Append(occ, The(pd)) ELSE occ

\* mutant: an invalid day is clamped to the last day of the month
ReplaceDayClamped(cur, d) ==
    IF d > DaysInMonth(Year(cur), Month(cur))
    THEN Replace(Year(cur), Month(cur), DaysInMonth(Year(cur), Month(cur)))
    ELSE Replace(Year(cur), Month(cur), d)

\* current_date.replace(day=due_day)
ReplaceDay(cur, d) == Replace(Year(cur), Month(cur), d)

\* "Move to next month": current_date.replace(month=month + 1), or January of
\* the next year after December; {} stands for the ValueError
NextMonth(cur) ==
    IF Month(cur) = 12 THEN Replace(Year(cur) + 1, 1, Day(cur))
    ELSE Replace(Year(cur), Month(cur) + 1, Day(cur))

\* days_ahead of the weekly and biweekly branches (step is 7 or 14)
DaysAhead(due, cur, step) ==
    IF due - Weekday(cur) <= 0 THEN due - Weekday(cur) + step
    ELSE due - Weekday(cur)

\* quarterly: replace(year=year, month=month, day=due_day), month + 3 wrapped
QuarterAhead(cur, d) ==
    IF Month(cur) + 3 > 12 THEN Replace(Year(cur) + 1, Month(cur) + 3 - 12, d)
    ELSE Replace(Year(cur), Month(cur) + 3, d)

\* annual: current_date.replace(year=current_date.year + 1)
YearAhead(cur) == Replace(Year(cur) + 1, Month(cur), Day(cur))

\* forecast_next_month up to the call of _calculate_occurrences
ForecastQuery ==
    /\ pc = "start"
    /\ IF Selected(payment)
       THEN /\ pc' = "loop"
            /\ current_date' = MaxOf(today, payment.start_date)
            /\ UNCHANGED <<deterministic_spend, payment_schedule>>
       ELSE /\ pc' = "done"
            /\ deterministic_spend' = 0
            /\ payment_schedule' = <<>>
            /\ UNCHANGED current_date
    /\ occurrences' = <<>>
    /\ payment_date' = {}
    /\ prev_date' = {}
    /\ UNCHANGED <<today, payment, error>>
    /\ UNCHANGED avars
    /\ UNCHANGED xvars

\* the while condition and the break on payment.end_date
InLoop ==
    /\ pc = "loop"
    /\ current_date <= forecast_end
    /\ ~PastEnd(payment, current_date)
    /\ Len(occurrences) < MaxOccurrences

Raise(e) ==
    /\ pc' = "raised"
    /\ error' = e
    /\ UNCHANGED current_date

MonthlyStep ==
    /\ InLoop
    /\ payment.frequency = "monthly"
    /\ LET pd == ReplaceDay(current_date, payment.due_day)
           nxt == NextMonth(current_date)
       IN /\ payment_date' = IF pd # {} THEN pd ELSE payment_date
          /\ occurrences' = Collect(occurrences, pd)
          /\ IF nxt # {}
             THEN current_date' = The(nxt) /\ UNCHANGED <<pc, error>>
             ELSE Raise("ValueError")
    /\ prev_date' = {current_date}
    /\ UNCHANGED <<today, payment, deterministic_spend, payment_schedule>>
    /\ UNCHANGED avars
    /\ UNCHANGED xvars

WeeklyStep ==
    /\ InLoop
    /\ payment.frequency = "weekly"
    /\ LET pd == current_date + DaysAhead(payment.due_day, current_date, 7)
       IN /\ payment_date' = {pd}
          /\ occurrences' = Collect(occurrences, {pd})
          /\ current_date' = pd + 7
    /\ prev_date' = {current_date}
    /\ UNCHANGED <<today, payment, pc, error, deterministic_spend, payment_schedule>>
    /\ UNCHANGED avars
    /\ UNCHANGED xvars

BiweeklyStep ==
    /\ InLoop
    /\ payment.frequency = "biweekly"
    /\ LET pd == current_date + DaysAhead(payment.due_day, current_date, 14)
       IN /\ payment_date' = {pd}
          /\ occurrences' = Collect(occurrences, {pd})
          /\ current_date' = pd + 14
    /\ prev_date' = {current_date}
    /\ UNCHANGED <<today, payment, pc, error, deterministic_spend, payment_schedule>>
    /\ UNCHANGED avars
    /\ UNCHANGED xvars

\* after the try block both branches run current_date = payment_date: the
\* previous value when the date could not be built, UnboundLocalError when
\* there is none
QuarterlyStep ==
    /\ InLoop
    /\ payment.frequency = "quarterly"
    /\ LET pd == QuarterAhead(current_date, payment.due_day)
           bound == IF pd # {} THEN pd ELSE payment_date
       IN /\ payment_date' = bound
          /\ occurrences' = Collect(occurrences, pd)
          /\ IF bound # {}
             THEN current_date' = The(bound) /\ UNCHANGED <<pc, error>>
             ELSE Raise("UnboundLocalError")
    /\ prev_date' = {current_date}
    /\ UNCHANGED <<today, payment, deterministic_spend, payment_schedule>>
    /\ UNCHANGED avars
    /\ UNCHANGED xvars

AnnualStep ==
    /\ InLoop
    /\ payment.frequency = "annual"
    /\ LET pd == YearAhead(current_date)
           bound == IF pd # {} THEN pd ELSE payment_date
       IN /\ payment_date' = bound
          /\ occurrences' = Collect(occurrences, pd)
          /\ IF bound # {}
             THEN current_date' = The(bound) /\ UNCHANGED <<pc, error>>
             ELSE Raise("UnboundLocalError")
    /\ prev_date' = {current_date}
    /\ UNCHANGED <<today, payment, deterministic_spend, payment_schedule>>
    /\ UNCHANGED avars
    /\ UNCHANGED xvars

\* the loop ends (condition false, or break) and _calculate_occurrences returns
CalcReturn ==
    /\ pc = "loop"
    /\ \/ current_date > forecast_end
       \/ PastEnd(payment, current_date)
       \/ payment.frequency \notin Frequencies
    /\ pc' = "returned"
    /\ UNCHANGED <<today, payment, error, current_date, payment_date, occurrences,
                   prev_date, deterministic_spend, payment_schedule>>
    /\ UNCHANGED avars
    /\ UNCHANGED xvars

\* the loop over the dates returned for one payment, added to the running
\* sum and to the schedule (kept sorted: the result sorts it, stably)
ForecastAccumulate ==
    /\ pc = "returned"
    /\ deterministic_spend' = deterministic_spend + payment.amount * Len(occurrences)
    /\ payment_schedule' =
         SortByDate(payment_schedule
                      \o [i \in 1..Len(occurrences) |-> ScheduleEntry(payment, occurrences[i])])
    /\ pc' = IF queue = <<>> THEN "done" ELSE "next"
    /\ UNCHANGED <<today, payment, error, current_date, payment_date, occurrences,
                   prev_date>>
    /\ UNCHANGED avars
    /\ UNCHANGED xvars

\* no classification call is running
InitClassifyIdle ==
    /\ intervals = <<>>
    /\ frequency = ""
    /\ confidence = -1

\* a number kept as the fraction <<numerator, denominator>>; <<0, 0>> is NaN
Zero == <<0, 1>>

\* no request served yet
NoRequest == [view |-> "", action |-> "", description |-> ""]

\* no pending confirmation, no payment rows beside the one under forecast
InitWorkflowIdle ==
    /\ pending = <<>>
    /\ recurring_payments = <<>>
    /\ queue = <<>>
    /\ request = NoRequest

\* an empty database, and no forecast computed
InitResultIdle ==
    /\ transactions = <<>>
    /\ avg_daily_discretionary = Zero
    /\ projected_discretionary = Zero
    /\ total_forecast = Zero

\* a result that no call has produced yet
NotCalled == [called |-> FALSE]

\* no session of calls is running
InitSessionIdle ==
    /\ history = <<>>
    /\ discretionary = <<>>
    /\ threshold_info = NotCalled
    /\ seasonality = NotCalled

InitAnalyzerIdle ==
    /\ df = <<>>
    /\ n_std = 0
    /\ window = 0
    /\ group_idx = 0
    /\ patterns = <<>>
    /\ anomalies = <<>>

(***************************************************************************)
(* TimeSeriesAnalyzer: the loaded DataFrame                                *)
(***************************************************************************)
MinOccurrences == 3      \* detect_recurring_patterns(min_occurrences=3)
ToleranceNum == 5        \* amount_tolerance = 0.05 = ToleranceNum / ToleranceDen
ToleranceDen == 100
ConfidenceScale == 10000 \* confidence is kept in units of 1/10000
ConfidenceMin == 7000    \* if confidence > 0.7

\* the largest description group of the generated datasets
MaxGroupSize == 3

\* groupby('description') visits the keys in sorted order
Descriptions == <<"Netflix", "Random Store">>

\* amounts in cents (amount >= 0: the sign is normalised upstream)
AmountSet == {0, 1000, 1040, 1200}
GapSet == {0, 7, 30, 31, 45}

Row(i, d, a, k, r) ==
    [id |-> i, date |-> d, amount |-> a, description |-> k, is_recurring |-> r]

\* rows of one description: first date d0, then the given gaps; ids from i0
GroupRows(k, i0, d0, gaps, amts) ==
    [j \in 1..Len(amts) |->
        Row(i0 + j - 1, d0 + SumSeq(SubSeq(gaps, 1, j - 1)), amts[j], k, FALSE)]

\* order_by('date') / sort_values('date'): rows in date order (ids break ties)
RECURSIVE InsertRow(_, _)
InsertRow(r, s) ==
    IF s = <<>> THEN <<r>>
    ELSE IF r.date < Head(s).date \/ (r.date = Head(s).date /\ r.id < Head(s).id)
         THEN <<r>> \o s
         ELSE <<Head(s)>> \o InsertRow(r, Tail(s))

RECURSIVE SortRows(_)
SortRows(s) == IF s = <<>> THEN <<>> ELSE InsertRow(Head(s), SortRows(Tail(s)))

\* load_data(): the user's transactions as a date-sorted table
LoadData(rows) == SortRows(rows)

SeqsOf(S, n) == [1..n -> S]

\* the second description group of a dataset: absent, daily, weekly, or free
OtherGroups ==
    { <<>>,
      GroupRows(Descriptions[2], 101, 3, <<1, 1>>, <<2550, 2550, 2550>>),
      GroupRows(Descriptions[2], 101, 3, <<7, 7>>, <<2550, 2550, 2550>>),
      GroupRows(Descriptions[2], 101, 3, <<30, 30>>, <<0, 0, 0>>) }

\* t is a generated table: a first group of 2..MaxGroupSize rows with gaps
\* and amounts drawn freely, together with one of the second groups
IsDetectDataset(t) ==
    \E n \in 2..MaxGroupSize :
        \E gaps \in SeqsOf(GapSet, n - 1), amts \in SeqsOf(AmountSet, n),
           other \in OtherGroups :
            t = LoadData(GroupRows(Descriptions[1], 1, 0, gaps, amts) \o other)

(***************************************************************************)
(* TimeSeriesAnalyzer.detect_recurring_patterns                            *)
(***************************************************************************)
RECURSIVE InsertInt(_, _)
InsertInt(x, s) ==
    IF s = <<>> THEN <<x>>
    ELSE IF x < Head(s) THEN <<x>> \o s
    ELSE <<Head(s)>> \o InsertInt(x, Tail(s))

RECURSIVE SortInts(_)
SortInts(s) == IF s = <<>> THEN <<>> ELSE InsertInt(Head(s), SortInts(Tail(s)))

\* floor of the square root, by bisection on [lo, hi]
RECURSIVE SqrtBetween(_, _, _)
SqrtBetween(x, lo, hi) ==
    IF lo >= hi THEN lo
    ELSE LET mid == (lo + hi + 1) \div 2
         IN IF mid * mid <= x THEN SqrtBetween(x, mid, hi)
            ELSE SqrtBetween(x, lo, mid - 1)

ISqrt(x) == SqrtBetween(x, 0, 46340)

\* the distinct descriptions of the table, in groupby order
GroupKeys(t) ==
    SelectSeq(Descriptions, LAMBDA k : \E i \in 1..Len(t) : t[i].description = k)

Group(t, k) == SelectSeq(t, LAMBDA r : r.description = k)

Amounts(g) == [i \in 1..Len(g) |-> g[i].amount]

\* np.diff(dates) in days
Intervals(g) == [i \in 1..(Len(g) - 1) |-> g[i + 1].date - g[i].date]

\* abs(amt - mean_amount) / mean_amount <= amount_tolerance with
\* mean_amount = total / n > 0, cross-multiplied
AmountWithin(amt, total, n) ==
    Abs(amt * n - total) * ToleranceDen <= ToleranceNum * total

\* mutant: any() in place of all()
WithinToleranceAny(amts) ==
    \E i \in 1..Len(amts) : AmountWithin(amts[i], SumSeq(amts), Len(amts))

\* within_tolerance = all(... for amt in amounts), for a mean above zero
WithinTolerance(amts) ==
    \A i \in 1..Len(amts) : AmountWithin(amts[i], SumSeq(amts), Len(amts))

\* twice np.median(intervals) (the median may be a half-integer)
Median2(iv) ==
    LET s == SortInts(iv)
        n == Len(iv)
    IN IF n % 2 = 1 THEN 2 * s[(n + 1) \div 2]
       ELSE s[n \div 2] + s[(n \div 2) + 1]

\* mutant: the weekly band reaches down to a gap of zero
FrequencyBandsFromZero ==
    << <<7, 7, "weekly">>, <<14, 3, "biweekly">>, <<30, 5, "monthly">>,
       <<91, 7, "quarterly">>, <<365, 14, "annual">> >>

\* the frequency table of _detect_frequency: (target, tolerance, name)
FrequencyBands ==
    << <<7, 2, "weekly">>, <<14, 3, "biweekly">>, <<30, 5, "monthly">>,
       <<91, 7, "quarterly">>, <<365, 14, "annual">> >>

\* mutant: the band test with < in place of <=
DetectFrequencyStrict(iv) ==
    IF Len(iv) = 0 THEN ""
    ELSE LET hits == {b \in 1..Len(FrequencyBands) :
                        Abs(Median2(iv) - 2 * FrequencyBands[b][1])
                            < 2 * FrequencyBands[b][2]}
         IN IF hits = {} THEN ""
            ELSE FrequencyBands[CHOOSE b \in hits : \A c \in hits : b <= c][3]

\* _detect_frequency: the first band with abs(median - target) <= tolerance,
\* "" for None
DetectFrequency(iv) ==
    IF Len(iv) = 0 THEN ""
    ELSE LET hits == {b \in 1..Len(FrequencyBands) :
                        Abs(Median2(iv) - 2 * FrequencyBands[b][1])
                            <= 2 * FrequencyBands[b][2]}
         IN IF hits = {} THEN ""
            ELSE FrequencyBands[CHOOSE b \in hits : \A c \in hits : b <= c][3]

\* frequency_days.get(frequency, 30)
ExpectedDays(f) ==
    IF f = "weekly" THEN 7
    ELSE IF f = "biweekly" THEN 14
    ELSE IF f = "quarterly" THEN 91
    ELSE IF f = "annual" THEN 365
    ELSE 30

SumSquares(iv) == SumSeq([i \in 1..Len(iv) |-> iv[i] * iv[i]])

\* mutant: the confidence without the mean_error term
CalculateConfidenceNoError(iv, f) ==
    IF Len(iv) = 0 THEN 0
    ELSE LET n == Len(iv)
             total == SumSeq(iv)
             var == n * SumSquares(iv) - total * total
             cv == (ISqrt(var * 10000) * (ConfidenceScale \div 100)) \div total
         IN IF total = 0 THEN 0
            ELSE MaxOf(0, ConfidenceScale - cv)

\* _calculate_confidence, in units of 1/ConfidenceScale:
\*   cv = np.std(intervals) / np.mean(intervals)      (population std)
\*   mean_error = abs(mean - expected) / expected
\*   max(0, 1 - cv - mean_error)
CalculateConfidence(iv, f) ==
    IF Len(iv) = 0 THEN 0
    ELSE LET n == Len(iv)
             total == SumSeq(iv)
             var == n * SumSquares(iv) - total * total   \* n^2 * variance
             cv == (ISqrt(var * 10000) * (ConfidenceScale \div 100)) \div total
             mean_error ==
                 (Abs(total - n * ExpectedDays(f)) * ConfidenceScale)
                     \div (n * ExpectedDays(f))
         IN IF total = 0 THEN 0
            ELSE MaxOf(0, ConfidenceScale - cv - mean_error)

\* the dictionary appended for a group; amount is the mean total / count
Pattern(k, g, f, c) ==
    [description |-> k,
     amount |-> [total |-> SumSeq(Amounts(g)), count |-> Len(g)],
     frequency |-> f,
     confidence |-> c,
     occurrences |-> Len(g),
     transaction_ids |-> [i \in 1..Len(g) |-> g[i].id],
     last_date |-> g[Len(g)].date]

\* patterns.sort(key=lambda x: x['confidence'], reverse=True): stable
RECURSIVE InsertByConfidence(_, _)
InsertByConfidence(e, s) ==
    IF s = <<>> THEN <<e>>
    ELSE IF e.confidence > Head(s).confidence THEN <<e>> \o s
    ELSE <<Head(s)>> \o InsertByConfidence(e, Tail(s))

RECURSIVE SortByConfidence(_)
SortByConfidence(s) ==
    IF s = <<>> THEN <<>>
    ELSE InsertByConfidence(s[Len(s)], SortByConfidence(SubSeq(s, 1, Len(s) - 1)))

\* mutant: the test on the size of the group is left out
GroupOutcomeAnySize(g) ==
    IF SumSeq(Amounts(g)) = 0 THEN "raise"
    ELSE IF ~WithinTolerance(Amounts(g)) THEN "skip"
    ELSE IF Len(Intervals(g)) = 0 THEN "skip"
    ELSE IF DetectFrequency(Intervals(g)) = "" THEN "skip"
    ELSE IF CalculateConfidence(Intervals(g), DetectFrequency(Intervals(g)))
              > ConfidenceMin THEN "emit"
    ELSE "skip"

\* the outcome of one pass of the groupby loop for group g of description k:
\* "skip" (continue), "emit", or "raise" (the division by a zero mean amount:
\* amounts are Decimal, and Decimal / Decimal(0) raises)
GroupOutcome(g) ==
    IF Len(g) < MinOccurrences THEN "skip"
    ELSE IF SumSeq(Amounts(g)) = 0 THEN "raise"
    ELSE IF ~WithinTolerance(Amounts(g)) THEN "skip"
    ELSE IF Len(Intervals(g)) = 0 THEN "skip"
    ELSE IF DetectFrequency(Intervals(g)) = "" THEN "skip"
    ELSE IF CalculateConfidence(Intervals(g), DetectFrequency(Intervals(g)))
              > ConfidenceMin THEN "emit"
    ELSE "skip"

\* entry of detect_recurring_patterns: the size test, then the groupby loop
DetectBegin ==
    /\ pc = "start"
    /\ patterns' = <<>>
    /\ IF Len(df) < MinOccurrences
       THEN pc' = "returned" /\ group_idx' = 0
       ELSE pc' = "groups" /\ group_idx' = 1
    /\ UNCHANGED <<df, n_std, window, anomalies, error>>
    /\ UNCHANGED <<today, payment, current_date, payment_date, occurrences,
                   prev_date, deterministic_spend, payment_schedule>>
    /\ UNCHANGED xvars

\* one pass of "for description, group in self.df.groupby('description')"
GroupStep ==
    /\ pc = "groups"
    /\ group_idx <= Len(GroupKeys(df))
    /\ LET k == GroupKeys(df)[group_idx]
           g == Group(df, k)
           f == DetectFrequency(Intervals(g))
       IN IF GroupOutcome(g) = "raise"
          THEN /\ pc' = "raised"
               /\ error' = "InvalidOperation"
               /\ UNCHANGED <<patterns, group_idx>>
          ELSE /\ patterns' =
                    IF GroupOutcome(g) = "emit"
                    THEN Append(patterns,
                                Pattern(k, g, f, CalculateConfidence(Intervals(g), f)))
                    ELSE patterns
               /\ group_idx' = group_idx + 1
               /\ UNCHANGED <<pc, error>>
    /\ UNCHANGED <<df, n_std, window, anomalies>>
    /\ UNCHANGED <<today, payment, current_date, payment_date, occurrences,
                   prev_date, deterministic_spend, payment_schedule>>
    /\ UNCHANGED xvars

\* after the loop: sort by confidence, return
DetectReturn ==
    /\ pc = "groups"
    /\ group_idx > Len(GroupKeys(df))
    /\ patterns' = SortByConfidence(patterns)
    /\ pc' = "returned"
    /\ UNCHANGED <<df, n_std, window, group_idx, anomalies, error>>
    /\ UNCHANGED <<today, payment, current_date, payment_date, occurrences,
                   prev_date, deterministic_spend, payment_schedule>>
    /\ UNCHANGED xvars

InitForecastIdle ==
    /\ today = 0
    /\ payment = NoPayment
    /\ current_date = 0
    /\ payment_date = {}
    /\ prev_date = {}
    /\ occurrences = <<>>
    /\ deterministic_spend = 0
    /\ payment_schedule = <<>>

InitDetect ==
    /\ InitWorkflowIdle
    /\ InitResultIdle
    /\ InitSessionIdle
    /\ InitClassifyIdle
    /\ InitForecastIdle
    /\ IsDetectDataset(df)
    /\ n_std = 0
    /\ window = 0
    /\ group_idx = 0
    /\ patterns = <<>>
    /\ anomalies = <<>>
    /\ pc = "start"
    /\ error = ""

NextDetect ==
    \/ DetectBegin
    \/ GroupStep
    \/ DetectReturn

SpecDetect == InitDetect /\ [][NextDetect]_vars

(***************************************************************************)
(* _detect_frequency and _calculate_confidence on their own                *)
(***************************************************************************)
\* gap lists of 1..MaxGaps gaps, each list drawn around the edges of the
\* bands of one neighbourhood
MaxGaps == 2

GapFamilies ==
    { {4, 5, 9, 10, 11, 17, 18, 24, 25, 35, 36},
      {83, 84, 98, 99},
      {350, 351, 379, 380} }

GapLists == UNION {SeqsOf(F, n) : F \in GapFamilies, n \in 1..MaxGaps}

\* frequency = self._detect_frequency(intervals)
DetectFrequencyCall ==
    /\ pc = "start"
    /\ frequency' = DetectFrequency(intervals)
    /\ pc' = "classified"
    /\ UNCHANGED <<intervals, confidence, error>>
    /\ UNCHANGED <<today, payment, current_date, payment_date, occurrences,
                   prev_date, deterministic_spend, payment_schedule>>
    /\ UNCHANGED avars
    /\ UNCHANGED <<svars, rvars, wvars>>

\* if frequency: confidence = self._calculate_confidence(intervals, frequency)
CalculateConfidenceCall ==
    /\ pc = "classified"
    /\ frequency # ""
    /\ confidence' = CalculateConfidence(intervals, frequency)
    /\ pc' = "returned"
    /\ UNCHANGED <<intervals, frequency, error>>
    /\ UNCHANGED <<today, payment, current_date, payment_date, occurrences,
                   prev_date, deterministic_spend, payment_schedule>>
    /\ UNCHANGED avars
    /\ UNCHANGED <<svars, rvars, wvars>>

InitFrequency ==
    /\ InitWorkflowIdle
    /\ InitResultIdle
    /\ InitSessionIdle
    /\ InitForecastIdle
    /\ InitAnalyzerIdle
    /\ intervals \in GapLists
    /\ frequency = ""
    /\ confidence = -1
    /\ pc = "start"
    /\ error = ""

NextFrequency ==
    \/ DetectFrequencyCall
    \/ CalculateConfidenceCall

SpecFrequency == InitFrequency /\ [][NextFrequency]_vars

(***************************************************************************)
(* TimeSeriesAnalyzer.detect_anomalies                                     *)
(***************************************************************************)
DefaultNStd == 2         \* n_std: float = 2.0
DefaultWindow == 30      \* window: int = 30

\* generated tables: up to MaxSeriesLen days of arbitrary spending, and flat
\* series of up to MaxFlatLen days with one differing day
MaxSeriesLen == 4
MaxFlatLen == 12

NStdSet == {-1, 0, 1, DefaultNStd}
WindowSet == {1, 3, DefaultWindow}

\* what a day of a generated table holds: -1 for no transaction, else the
\* amount of its one discretionary transaction
DayChoices == {-1, 0, 2, 9}

\* one row per day that has a transaction; day j of the sequence is date j
DayRows(days) ==
    LET present == SelectSeq([j \in 1..Len(days) |-> j], LAMBDA j : days[j] >= 0)
    IN [i \in 1..Len(present) |->
           Row(present[i], present[i], days[present[i]], Descriptions[2], FALSE)]

\* rows added to a table: nothing, a transaction already flagged recurring,
\* or a second discretionary transaction on a day
ExtraRows ==
    { <<>>,
      <<Row(201, 2, 50, Descriptions[1], TRUE)>>,
      <<Row(201, 2, 7, Descriptions[1], FALSE)>> }

AnomalyDatasets ==
    UNION {{LoadData(DayRows(days) \o extra) :
               days \in SeqsOf(DayChoices, n), extra \in ExtraRows}
           : n \in 1..MaxSeriesLen}

\* n days of amount c, except amount x on day k
FlatSeries(n, c, x, k) == [j \in 1..n |-> IF j = k THEN x ELSE c]

FlatDatasets ==
    {LoadData(DayRows(FlatSeries(n, c, c + up, k))) :
        n \in 2..MaxFlatLen, c \in {0, 10}, up \in {1, 30}, k \in 1..MaxFlatLen}

\* mutant: the is_recurring filter is left out
DiscretionaryAll(t) == t

\* get_discretionary_spending: the rows not flagged is_recurring
Discretionary(t) == SelectSeq(t, LAMBDA r : ~r.is_recurring)

\* rows of the given date
RowsOn(rows, d) == SelectSeq(rows, LAMBDA r : r.date = d)

\* groupby('date')['amount'].sum(), reindexed with fill_value=0
DayAmount(rows, d) == SumSeq(Amounts(RowsOn(rows, d)))

\* date_range(start=index.min(), end=index.max(), freq='D'); rows are sorted
SeriesStart(rows) == rows[1].date
SeriesEnd(rows) == rows[Len(rows)].date

\* the days under the rolling window that ends on day d (min_periods=1)
WindowDays(rows, d, w) == MaxOf(SeriesStart(rows), d - w + 1)..d

RECURSIVE SumOver(_, _, _)
SumOver(rows, days, sq) ==
    IF days = {} THEN 0
    ELSE LET d == CHOOSE x \in days : TRUE
             a == DayAmount(rows, d)
         IN (IF sq THEN a * a ELSE a) + SumOver(rows, days \ {d}, sq)

WinCount(rows, d, w) == Cardinality(WindowDays(rows, d, w))
WinSum(rows, d, w) == SumOver(rows, WindowDays(rows, d, w), FALSE)
WinSumSq(rows, d, w) == SumOver(rows, WindowDays(rows, d, w), TRUE)

\* rolling(...).std() is the sample deviation (ddof=1): NaN for one day
StdDefined(cnt) == cnt >= 2

\* cnt * (cnt - 1) * rolling variance
ScaledVar(cnt, sum, sumsq) == cnt * sumsq - sum * sum

\* amount > rolling_mean + n_std * rolling_std, decided without the root:
\* with dev = cnt * (amount - mean), the test is dev / cnt > k * std.
\* A NaN threshold compares False.
ExceedsThreshold(a, cnt, sum, sumsq, k) ==
    LET dev == cnt * a - sum
        lhs == dev * dev * (cnt - 1)
        rhs == k * k * cnt * ScaledVar(cnt, sum, sumsq)
    IN IF ~StdDefined(cnt) THEN FALSE
       ELSE IF k >= 0 THEN dev > 0 /\ lhs > rhs
       ELSE IF dev >= 0 THEN dev > 0 \/ ScaledVar(cnt, sum, sumsq) > 0
       ELSE lhs < rhs

\* if amount > threshold[date] and amount > 0
IsAnomaly(rows, d, k, w) ==
    /\ ExceedsThreshold(DayAmount(rows, d), WinCount(rows, d, w),
                        WinSum(rows, d, w), WinSumSq(rows, d, w), k)
    /\ DayAmount(rows, d) > 0

\* mutant: the z-score is 0 whatever the deviation
ZScoreZero(a, cnt, sum, sumsq) ==
    [divided |-> FALSE, num |-> <<0, 1>>, den2 |-> <<1, 1>>]

\* (amount - rolling_mean) / rolling_std if rolling_std > 0 else 0 (a NaN
\* deviation compares False).  A quotient is kept as its numerator
\* amount - mean and the square of its divisor, the rolling variance,
\* both as fractions.
ZScore(a, cnt, sum, sumsq) ==
    IF StdDefined(cnt) /\ ScaledVar(cnt, sum, sumsq) > 0
    THEN [divided |-> TRUE,
          num |-> <<cnt * a - sum, cnt>>,
          den2 |-> <<ScaledVar(cnt, sum, sumsq), cnt * (cnt - 1)>>]
    ELSE [divided |-> FALSE, num |-> <<0, 1>>, den2 |-> <<1, 1>>]

\* the dictionary appended for an anomalous day; the rolling mean and
\* deviation are kept as the window's count, sum and sum of squares
Anomaly(rows, d, w) ==
    [date |-> d,
     amount |-> DayAmount(rows, d),
     count |-> WinCount(rows, d, w),
     sum |-> WinSum(rows, d, w),
     sumsq |-> WinSumSq(rows, d, w),
     z_score |-> ZScore(DayAmount(rows, d), WinCount(rows, d, w),
                        WinSum(rows, d, w), WinSumSq(rows, d, w)),
     transactions |-> RowsOn(rows, d)]

\* the loop over daily_spending['amount'].items(), in date order
RECURSIVE AnomaliesFrom(_, _, _, _)
AnomaliesFrom(rows, d, k, w) ==
    IF d > SeriesEnd(rows) THEN <<>>
    ELSE (IF IsAnomaly(rows, d, k, w) THEN <<Anomaly(rows, d, w)>> ELSE <<>>)
            \o AnomaliesFrom(rows, d + 1, k, w)

\* The amounts come from a DecimalField and reach the table as Decimal
\* objects (load_data builds the frame from queryset.values()); the rolling
\* statistics are float64.  Whether a day's sum reaches the comparison
\* "amount > threshold[date]" as float64 or still as Decimal depends on how
\* the pandas build sums an object column, so both outcomes are modelled.

\* detect_anomalies(n_std, window), the daily sums compared as floats
DetectAnomalies ==
    /\ pc = "start"
    /\ anomalies' =
         IF Len(Discretionary(df)) = 0 THEN <<>>
         ELSE AnomaliesFrom(Discretionary(df), SeriesStart(Discretionary(df)),
                            n_std, window)
    /\ pc' = "returned"
    /\ UNCHANGED <<df, n_std, window, group_idx, patterns, error>>
    /\ UNCHANGED <<today, payment, current_date, payment_date, occurrences,
                   prev_date, deterministic_spend, payment_schedule>>
    /\ UNCHANGED xvars

\* a Decimal sum (a day that has transactions; filled days hold the int 0)
\* meets a NaN threshold: Decimal > nan raises decimal.InvalidOperation
DecimalMeetsNaN(rows, d, w) ==
    RowsOn(rows, d) # <<>> /\ ~StdDefined(WinCount(rows, d, w))

\* the days of the loop up to, not including, the first that raises
DaysBeforeRaise(rows, w) ==
    {d \in SeriesStart(rows)..SeriesEnd(rows) :
        \A e \in SeriesStart(rows)..d : ~DecimalMeetsNaN(rows, e, w)}

\* detect_anomalies(n_std, window), the daily sums compared as Decimal
DetectAnomaliesDecimal ==
    /\ pc = "start"
    /\ LET rows == Discretionary(df)
           raises == /\ Len(rows) > 0
                     /\ \E d \in SeriesStart(rows)..SeriesEnd(rows) :
                           DecimalMeetsNaN(rows, d, window)
       IN /\ anomalies' =
               IF Len(rows) = 0 THEN <<>>
               ELSE SelectSeq(AnomaliesFrom(rows, SeriesStart(rows), n_std, window),
                              LAMBDA a : a.date \in DaysBeforeRaise(rows, window))
          /\ pc' = IF raises THEN "raised" ELSE "returned"
          /\ error' = IF raises THEN "InvalidOperation" ELSE ""
    /\ UNCHANGED <<df, n_std, window, group_idx, patterns>>
    /\ UNCHANGED <<today, payment, current_date, payment_date, occurrences,
                   prev_date, deterministic_spend, payment_schedule>>
    /\ UNCHANGED xvars

InitAnomaly ==
    /\ InitWorkflowIdle
    /\ InitResultIdle
    /\ InitSessionIdle
    /\ InitClassifyIdle
    /\ InitForecastIdle
    /\ \/ df \in AnomalyDatasets /\ n_std \in NStdSet /\ window \in WindowSet
       \/ df \in FlatDatasets /\ n_std = DefaultNStd /\ window = DefaultWindow
    /\ group_idx = 0
    /\ patterns = <<>>
    /\ anomalies = <<>>
    /\ pc = "start"
    /\ error = ""

NextAnomaly == DetectAnomalies \/ DetectAnomaliesDecimal

SpecAnomaly == InitAnomaly /\ [][NextAnomaly]_vars

(***************************************************************************)
(* TimeSeriesAnalyzer: calculate_spending_threshold, analyze_seasonality,  *)
(* and a session of calls on one loaded analyzer                           *)
(***************************************************************************)
\* mutant: every calendar day from the first to the last row counts
DatesDense(rows) == IF rows = <<>> THEN {} ELSE SeriesStart(rows)..SeriesEnd(rows)

\* the dates that have a row
DatesOf(rows) == {rows[i].date : i \in 1..Len(rows)}

\* calculate_spending_threshold: over the per-date sums of the discretionary
\* rows (dates without a row do not count),
\*   avg_daily_spending = mean, std = sample deviation (NaN for one date),
\*   threshold = avg_daily_spending + 2 * std.
\* std is kept as the variance under the root, threshold as its two terms.
SpendingThreshold(t) ==
    LET rows == Discretionary(t)
        n == Cardinality(DatesOf(rows))
        total == SumOver(rows, DatesOf(rows), FALSE)
        sumsq == SumOver(rows, DatesOf(rows), TRUE)
    IN IF Len(rows) = 0
       THEN [called |-> TRUE, avg_daily_spending |-> Zero, variance |-> Zero,
             threshold |-> [avg |-> Zero, n_std |-> 2, variance |-> Zero]]
       ELSE [called |-> TRUE,
             avg_daily_spending |-> <<total, n>>,
             variance |-> <<ScaledVar(n, total, sumsq), n * (n - 1)>>,
             threshold |-> [avg |-> <<total, n>>, n_std |-> 2,
                            variance |-> <<ScaledVar(n, total, sumsq), n * (n - 1)>>]]

MinSeasonalDays == 14        \* if len(daily_spending) < 14
MinDecompositionDays == 30   \* if len(daily_spending) >= 30

\* what seasonal_decompose and the strength test can come to, the numbers of
\* the decomposition being left open: an exception (caught), a strength of
\* at most 0.1, or a strength above 0.1
Decompositions == {"failed", "weak", "strong"}

\* mutant: the series has one point per row
DailyPointsPerRow(t) == Len(t)

\* len(daily_spending) after resample('D'): every calendar day from the
\* first to the last row
DailyPoints(t) == SeriesEnd(t) - SeriesStart(t) + 1

\* total_var > 0: the daily sums are not all equal
TotalVarPositive(t) ==
    \E d \in SeriesStart(t)..SeriesEnd(t) : DayAmount(t, d) # DayAmount(t, SeriesStart(t))

ErrorKeys == {"error"}
BaseKeys == {"daily_spending", "mean", "std", "has_strong_seasonality"}
DecompositionKeys == {"trend", "seasonal", "residual"}

\* analyze_seasonality: the keys of the dictionary it returns, its error
\* message, the length of the daily series and has_strong_seasonality, for
\* decomposition outcome o (which matters from 30 points on)
Seasonality(t, o) ==
    IF Len(t) = 0
    THEN [called |-> TRUE, error |-> "No data available", days |-> 0,
          keys |-> ErrorKeys, has_strong_seasonality |-> FALSE]
    ELSE IF DailyPoints(t) < MinSeasonalDays
    THEN [called |-> TRUE, error |-> "Insufficient data", days |-> DailyPoints(t),
          keys |-> ErrorKeys, has_strong_seasonality |-> FALSE]
    ELSE IF DailyPoints(t) < MinDecompositionDays
    THEN [called |-> TRUE, error |-> "", days |-> DailyPoints(t),
          keys |-> BaseKeys, has_strong_seasonality |-> FALSE]
    ELSE IF o = "failed"
    THEN [called |-> TRUE, error |-> "", days |-> DailyPoints(t),
          keys |-> BaseKeys \cup {"decomposition_error"},
          has_strong_seasonality |-> FALSE]
    ELSE IF ~TotalVarPositive(t)
    THEN [called |-> TRUE, error |-> "", days |-> DailyPoints(t),
          keys |-> BaseKeys \cup DecompositionKeys,
          has_strong_seasonality |-> FALSE]
    ELSE [called |-> TRUE, error |-> "", days |-> DailyPoints(t),
          keys |-> BaseKeys \cup DecompositionKeys \cup {"seasonality_strength"},
          has_strong_seasonality |-> (o = "strong")]

\* a session makes up to MaxCalls calls
MaxCalls == 3

Operations ==
    {"detect_recurring_patterns", "detect_anomalies", "get_discretionary_spending",
     "calculate_spending_threshold", "analyze_seasonality"}

\* the rows with the is_recurring flag set (a confirmed pattern's transactions)
Flagged(rows) == [i \in 1..Len(rows) |-> [rows[i] EXCEPT !.is_recurring = TRUE]]

\* the loaded tables of a session: empty; only recurring rows; recurring rows
\* of amount zero; recurring and discretionary rows; one discretionary row;
\* discretionary rows over 14 and over 30 days
SessionDatasets ==
    { <<>>,
      LoadData(Flagged(GroupRows(Descriptions[1], 1, 0, <<30, 30>>, <<1000, 1000, 1000>>))),
      LoadData(Flagged(GroupRows(Descriptions[1], 1, 0, <<30, 30>>, <<0, 0, 0>>))),
      LoadData(Flagged(GroupRows(Descriptions[1], 1, 0, <<30, 30>>, <<1000, 1000, 1000>>))
                 \o GroupRows(Descriptions[2], 101, 1, <<1, 1>>, <<25, 25, 90>>)),
      LoadData(Flagged(GroupRows(Descriptions[1], 1, 0, <<7>>, <<1000, 1000>>))
                 \o GroupRows(Descriptions[2], 101, 1, <<0, 3>>, <<25, 10, 0>>)),
      LoadData(GroupRows(Descriptions[2], 101, 5, <<>>, <<25>>)),
      LoadData(GroupRows(Descriptions[2], 101, 0, <<13>>, <<25, 25>>)),
      LoadData(GroupRows(Descriptions[1], 1, 0, <<7, 7>>, <<100, 104, 100>>)) }

\* the caller makes the next call
BeginCall ==
    /\ pc = "idle"
    /\ Len(history) < MaxCalls
    /\ \E op \in Operations : history' = Append(history, op)
    /\ pc' = "start"
    /\ error' = ""
    /\ group_idx' = 0
    /\ UNCHANGED <<df, n_std, window, patterns, anomalies>>
    /\ UNCHANGED <<discretionary, threshold_info, seasonality>>
    /\ UNCHANGED <<cvars, rvars, wvars, flocals>>

\* the call under way
Calling(op) == history # <<>> /\ history[Len(history)] = op

\* the call returned, or left with an exception the caller caught
EndCall ==
    /\ pc \in {"returned", "raised"}
    /\ pc' = "idle"
    /\ UNCHANGED <<error, avars, cvars, svars, rvars, wvars, flocals>>

\* mutant: the filter is applied to self.df itself
GetDiscretionaryInPlace ==
    /\ pc = "start"
    /\ Calling("get_discretionary_spending")
    /\ df' = Discretionary(df)
    /\ discretionary' = Discretionary(df)
    /\ pc' = "returned"
    /\ UNCHANGED <<error, n_std, window, group_idx, patterns, anomalies>>
    /\ UNCHANGED <<history, threshold_info, seasonality>>
    /\ UNCHANGED <<cvars, rvars, wvars, flocals>>

\* get_discretionary_spending(): a filtered copy of the table
GetDiscretionarySpending ==
    /\ pc = "start"
    /\ Calling("get_discretionary_spending")
    /\ discretionary' = Discretionary(df)
    /\ pc' = "returned"
    /\ UNCHANGED <<error, avars>>
    /\ UNCHANGED <<history, threshold_info, seasonality>>
    /\ UNCHANGED <<cvars, rvars, wvars, flocals>>

\* calculate_spending_threshold()
CalculateSpendingThreshold ==
    /\ pc = "start"
    /\ Calling("calculate_spending_threshold")
    /\ threshold_info' = SpendingThreshold(df)
    /\ pc' = "returned"
    /\ UNCHANGED <<error, avars>>
    /\ UNCHANGED <<history, discretionary, seasonality>>
    /\ UNCHANGED <<cvars, rvars, wvars, flocals>>

\* analyze_seasonality()
AnalyzeSeasonality ==
    /\ pc = "start"
    /\ Calling("analyze_seasonality")
    /\ \E o \in Decompositions : seasonality' = Seasonality(df, o)
    /\ pc' = "returned"
    /\ UNCHANGED <<error, avars>>
    /\ UNCHANGED <<history, discretionary, threshold_info>>
    /\ UNCHANGED <<cvars, rvars, wvars, flocals>>

SessionDetectBegin == Calling("detect_recurring_patterns") /\ DetectBegin

SessionDetectAnomalies ==
    /\ Calling("detect_anomalies")
    /\ (DetectAnomalies \/ DetectAnomaliesDecimal)

InitSession ==
    /\ InitWorkflowIdle
    /\ InitResultIdle
    /\ InitForecastIdle
    /\ InitClassifyIdle
    /\ df \in SessionDatasets
    /\ n_std = DefaultNStd
    /\ window = DefaultWindow
    /\ group_idx = 0
    /\ patterns = <<>>
    /\ anomalies = <<>>
    /\ history = <<>>
    /\ discretionary = <<>>
    /\ threshold_info = NotCalled
    /\ seasonality = NotCalled
    /\ pc = "idle"
    /\ error = ""

NextSession ==
    \/ BeginCall
    \/ SessionDetectBegin
    \/ GroupStep
    \/ DetectReturn
    \/ SessionDetectAnomalies
    \/ GetDiscretionarySpending
    \/ CalculateSpendingThreshold
    \/ AnalyzeSeasonality
    \/ EndCall

SpecSession == InitSession /\ [][NextSession]_vars

(***************************************************************************)
(* ForecastEngine.forecast_next_month: the discretionary projection        *)
(***************************************************************************)
TrailingDays == 90       \* load_data(start_date=today - timedelta(days=90))
ProjectionDays == 30     \* projected_discretionary = avg_daily_discretionary * 30

\* queryset.filter(date__gte=start_date): load_data is called without end_date
Since(rows, start) == SelectSeq(rows, LAMBDA r : r.date >= start)

\* the product of a fraction and an integer
Times(q, k) == <<q[1] * k, q[2]>>

\* mutant: the recurring part is left out of the total
PlusIntDropped(i, q) == q

\* the sum of an integer and a fraction
PlusInt(i, q) == <<i * q[2] + q[1], q[2]>>

\* after the loop over the payments: the analyzer is loaded with the rows
\* since today - 90, and the result dictionary is built
ForecastReturn ==
    /\ pc = "done"
    /\ df' = LoadData(Since(transactions, today - TrailingDays))
    /\ threshold_info' = SpendingThreshold(df')
    /\ avg_daily_discretionary' = threshold_info'.avg_daily_spending
    /\ projected_discretionary' = Times(avg_daily_discretionary', ProjectionDays)
    /\ total_forecast' = PlusInt(deterministic_spend, projected_discretionary')
    /\ pc' = "finished"
    /\ UNCHANGED <<error, flocals, transactions>>
    /\ UNCHANGED <<n_std, window, group_idx, patterns, anomalies>>
    /\ UNCHANGED <<cvars, history, discretionary, seasonality, wvars>>

InitForecast ==
    /\ InitWorkflowIdle
    /\ InitResultIdle
    /\ InitSessionIdle
    /\ InitClassifyIdle
    /\ today \in TodaySet
    /\ payment \in InitPayments(today)
    /\ pc = "start"
    /\ error = ""
    /\ current_date = 0
    /\ payment_date = {}
    /\ prev_date = {}
    /\ occurrences = <<>>
    /\ deterministic_spend = 0
    /\ payment_schedule = <<>>
    /\ InitAnalyzerIdle

NextForecast ==
    \/ ForecastQuery
    \/ MonthlyStep
    \/ WeeklyStep
    \/ BiweeklyStep
    \/ QuarterlyStep
    \/ AnnualStep
    \/ CalcReturn
    \/ ForecastAccumulate
    \/ ForecastReturn

SpecForecast == InitForecast /\ [][NextForecast]_vars

\* the rows a user's table is drawn from, for reference date t: discretionary
\* rows dated t-91, t-90, t-45, t and t+1, and a recurring row dated t-10
TransactionPool(t) ==
    << Row(1, t - 91, 40, Descriptions[2], FALSE),
       Row(2, t - 90, 10, Descriptions[2], FALSE),
       Row(3, t - 45, 20, Descriptions[2], FALSE),
       Row(4, t, 30, Descriptions[2], FALSE),
       Row(5, t + 1, 50, Descriptions[2], FALSE),
       Row(6, t - 10, 1000, Descriptions[1], TRUE) >>

TransactionTables(t) ==
    {SelectSeq(TransactionPool(t), LAMBDA r : r.id \in ids) :
        ids \in SUBSET (1..Len(TransactionPool(t)))}

\* reference dates of the forecasts made over a filled database
SpendTodays ==
    {ToOrdinal(FirstYear, 1, 1), ToOrdinal(FirstYear, 1, 15), ToOrdinal(FirstYear, 1, 31)}

InitForecastSpend ==
    /\ InitWorkflowIdle
    /\ today \in SpendTodays
    /\ payment \in InitPayments(today)
    /\ transactions \in TransactionTables(today)
    /\ avg_daily_discretionary = Zero
    /\ projected_discretionary = Zero
    /\ total_forecast = Zero
    /\ pc = "start"
    /\ error = ""
    /\ current_date = 0
    /\ payment_date = {}
    /\ prev_date = {}
    /\ occurrences = <<>>
    /\ deterministic_spend = 0
    /\ payment_schedule = <<>>
    /\ InitAnalyzerIdle
    /\ InitClassifyIdle
    /\ InitSessionIdle

SpecForecastSpend == InitForecastSpend /\ [][NextForecast]_vars

(***************************************************************************)
(* The views detect_recurring_payments and confirm_recurring_payment, and  *)
(* the forecast over the RecurringPayment rows they leave                  *)
(***************************************************************************)
MaxPayments == 3     \* bound on the number of RecurringPayment rows

\* DecimalField(max_digits=10, decimal_places=2): the stored value of the
\* mean amount total / count, quantized to the unit, half to even
StoredAmount(a) ==
    LET q == a.total \div a.count
        r == a.total % a.count
    IN IF 2 * r < a.count THEN q
       ELSE IF 2 * r > a.count THEN q + 1
       ELSE IF q % 2 = 0 THEN q ELSE q + 1

\* the groupby loop of detect_recurring_patterns from the i-th group on
RECURSIVE PatternsFrom(_, _)
PatternsFrom(t, i) ==
    IF i > Len(GroupKeys(t)) THEN <<>>
    ELSE LET k == GroupKeys(t)[i]
             g == Group(t, k)
             f == DetectFrequency(Intervals(g))
         IN (IF GroupOutcome(g) = "emit"
             THEN <<Pattern(k, g, f, CalculateConfidence(Intervals(g), f))>>
             ELSE <<>>) \o PatternsFrom(t, i + 1)

\* some pass of the groupby loop raises
DetectRaises(t) ==
    /\ Len(t) >= MinOccurrences
    /\ \E i \in 1..Len(GroupKeys(t)) : GroupOutcome(Group(t, GroupKeys(t)[i])) = "raise"

\* the list detect_recurring_patterns returns for table t
DetectedPatterns(t) ==
    IF Len(t) < MinOccurrences THEN <<>> ELSE SortByConfidence(PatternsFrom(t, 1))

\* PendingRecurringConfirmation.objects.create(...) and related_transactions.set(...)
Confirmation(pat) ==
    [description |-> pat.description,
     amount |-> StoredAmount(pat.amount),
     frequency |-> pat.frequency,
     confidence_score |-> pat.confidence,
     related_transactions |-> Range(pat.transaction_ids)]

\* PendingRecurringConfirmation.objects.filter(description=..., amount=...).exists()
HasPending(ps, pat) ==
    \E i \in 1..Len(ps) :
        ps[i].description = pat.description /\ ps[i].amount = StoredAmount(pat.amount)

\* the loop "for pattern in patterns" of detect_recurring_payments
RECURSIVE CreatePending(_, _)
CreatePending(ps, pats) ==
    IF pats = <<>> THEN ps
    ELSE CreatePending(IF HasPending(ps, Head(pats)) THEN ps
                       ELSE Append(ps, Confirmation(Head(pats))),
                       Tail(pats))

\* no request and no forecast is running
AtRest == pc \in {"idle", "finished"}

Request(v, a, d) == [view |-> v, action |-> a, description |-> d]

\* detect_recurring_payments: an empty table, or an exception caught by the
\* view, creates nothing
DetectRecurringPayments ==
    /\ AtRest
    /\ request' = Request("detect_recurring_payments", "", "")
    /\ pending' =
         IF Len(transactions) = 0 \/ DetectRaises(LoadData(transactions)) THEN pending
         ELSE CreatePending(pending, DetectedPatterns(LoadData(transactions)))
    /\ pc' = "idle"
    /\ UNCHANGED <<error, flocals, avars, cvars, svars, rvars, recurring_payments, queue>>

\* confirmation.related_transactions
Related(c) == SelectSeq(transactions, LAMBDA r : r.id \in c.related_transactions)

\* related_transactions.order_by('-date').first().date
LastDate(c) ==
    CHOOSE d \in {Related(c)[i].date : i \in 1..Len(Related(c))} :
        \A i \in 1..Len(Related(c)) : Related(c)[i].date <= d

\* the due day the view derives from the last related transaction
DueDay(c) ==
    IF c.frequency = "monthly" THEN Day(LastDate(c))
    ELSE IF c.frequency \in {"weekly", "biweekly"} THEN Weekday(LastDate(c))
    ELSE 1

\* RecurringPayment.objects.create(..., auto_detected=True, confirmed_by_user=True);
\* is_active and end_date keep their defaults
Confirmed(c) ==
    [name |-> c.description, amount |-> c.amount, frequency |-> c.frequency,
     due_day |-> DueDay(c), start_date |-> LastDate(c), end_date |-> {},
     is_active |-> TRUE, confirmed_by_user |-> TRUE]

Without(s, i) == SubSeq(s, 1, i - 1) \o SubSeq(s, i + 1, Len(s))

\* confirm_recurring_payment with action = 'confirm' on pending row i
ConfirmRecurringPayment(i) ==
    /\ AtRest
    /\ i \in 1..Len(pending)
    /\ Len(recurring_payments) < MaxPayments
    /\ request' = Request("confirm_recurring_payment", "confirm", pending[i].description)
    /\ recurring_payments' = Append(recurring_payments, Confirmed(pending[i]))
    /\ transactions' =
         [j \in 1..Len(transactions) |->
            IF transactions[j].id \in pending[i].related_transactions
            THEN [transactions[j] EXCEPT !.is_recurring = TRUE]
            ELSE transactions[j]]
    /\ pending' = Without(pending, i)
    /\ pc' = "idle"
    /\ UNCHANGED <<error, flocals, avars, cvars, svars, queue>>
    /\ UNCHANGED <<avg_daily_discretionary, projected_discretionary, total_forecast>>

\* confirm_recurring_payment with any other action on pending row i
RejectRecurringPayment(i) ==
    /\ AtRest
    /\ i \in 1..Len(pending)
    /\ request' = Request("confirm_recurring_payment", "reject", pending[i].description)
    /\ pending' = Without(pending, i)
    /\ pc' = "idle"
    /\ UNCHANGED <<error, flocals, avars, cvars, svars, rvars, recurring_payments, queue>>

\* mutant: the filter on confirmed_by_user is left out
ActivePayments == SelectSeq(recurring_payments, LAMBDA p : p.is_active)

\* RecurringPayment.objects.filter(user=..., is_active=True, confirmed_by_user=True)
SelectedPayments == SelectSeq(recurring_payments, Selected)

\* entry of forecast_next_month over the RecurringPayment rows: the query,
\* and the first pass of "for payment in recurring_payments"
ForecastQueryAll ==
    /\ AtRest
    /\ deterministic_spend' = 0
    /\ payment_schedule' = <<>>
    /\ occurrences' = <<>>
    /\ payment_date' = {}
    /\ prev_date' = {}
    /\ IF SelectedPayments = <<>>
       THEN /\ pc' = "done"
            /\ queue' = <<>>
            /\ UNCHANGED <<payment, current_date>>
       ELSE /\ pc' = "loop"
            /\ payment' = Head(SelectedPayments)
            /\ queue' = Tail(SelectedPayments)
            /\ current_date' = MaxOf(today, Head(SelectedPayments).start_date)
    /\ UNCHANGED <<today, error, avars, cvars, svars, rvars>>
    /\ UNCHANGED <<pending, recurring_payments, request>>

\* the next pass of "for payment in recurring_payments"
ForecastNextPayment ==
    /\ pc = "next"
    /\ queue # <<>>
    /\ payment' = Head(queue)
    /\ queue' = Tail(queue)
    /\ current_date' = MaxOf(today, Head(queue).start_date)
    /\ occurrences' = <<>>
    /\ payment_date' = {}
    /\ prev_date' = {}
    /\ pc' = "loop"
    /\ UNCHANGED <<today, error, deterministic_spend, payment_schedule>>
    /\ UNCHANGED <<avars, cvars, svars, rvars>>
    /\ UNCHANGED <<pending, recurring_payments, request>>

\* the day the workflow runs on: a Monday, 2024-03-04
WorkflowToday == ToOrdinal(FirstYear, 3, 4)

\* gaps of the charges of the first description
WorkflowGaps == {7, 14, 30, 91, 365}

\* three charges of the first description g days apart, the last one today
Charges(t, g) ==
    << Row(1, t - 2 * g, 1000, Descriptions[1], FALSE),
       Row(2, t - g, 1000, Descriptions[1], FALSE),
       Row(3, t, 1040, Descriptions[1], FALSE) >>

\* purchases of the second description: none, monthly ones, or irregular ones
Purchases(t) ==
    { <<>>,
      << Row(4, t - 63, 1200, Descriptions[2], FALSE),
         Row(5, t - 33, 1200, Descriptions[2], FALSE),
         Row(6, t - 3, 1200, Descriptions[2], FALSE) >>,
      << Row(4, t - 55, 1200, Descriptions[2], FALSE),
         Row(5, t - 48, 1200, Descriptions[2], FALSE),
         Row(6, t - 3, 1200, Descriptions[2], FALSE) >> }

WorkflowTables(t) == {Charges(t, g) \o p : g \in WorkflowGaps, p \in Purchases(t)}

\* a payment entered by hand: RentAmount on the 10th, monthly
Manual(t, active, confirmed) ==
    [name |-> "Rent", amount |-> RentAmount, frequency |-> "monthly", due_day |-> 10,
     start_date |-> t - YearBack, end_date |-> {},
     is_active |-> active, confirmed_by_user |-> confirmed]

\* the RecurringPayment rows before the first request
InitialPayments(t) ==
    { <<>>,
      <<Manual(t, TRUE, FALSE)>>,
      <<Manual(t, FALSE, TRUE)>>,
      <<Manual(t, TRUE, TRUE)>> }

InitWorkflow ==
    /\ today = WorkflowToday
    /\ transactions \in WorkflowTables(today)
    /\ recurring_payments \in InitialPayments(today)
    /\ pending = <<>>
    /\ queue = <<>>
    /\ request = NoRequest
    /\ payment = NoPayment
    /\ current_date = 0
    /\ payment_date = {}
    /\ prev_date = {}
    /\ occurrences = <<>>
    /\ deterministic_spend = 0
    /\ payment_schedule = <<>>
    /\ avg_daily_discretionary = Zero
    /\ projected_discretionary = Zero
    /\ total_forecast = Zero
    /\ pc = "idle"
    /\ error = ""
    /\ InitAnalyzerIdle
    /\ InitClassifyIdle
    /\ InitSessionIdle

NextWorkflow ==
    \/ DetectRecurringPayments
    \/ \E i \in 1..Len(pending) : ConfirmRecurringPayment(i)
    \/ \E i \in 1..Len(pending) : RejectRecurringPayment(i)
    \/ ForecastQueryAll
    \/ ForecastNextPayment
    \/ MonthlyStep
    \/ WeeklyStep
    \/ BiweeklyStep
    \/ QuarterlyStep
    \/ AnnualStep
    \/ CalcReturn
    \/ ForecastAccumulate
    \/ ForecastReturn

SpecWorkflow == InitWorkflow /\ [][NextWorkflow]_vars

(***************************************************************************)
(* Claims about the Forecast Engine (checked under SpecForecast)           *)
(***************************************************************************)
\* the Rent payment of ForecastEngineTests: confirmed, active, monthly,
\* due on the 1st, started one year before today, no end date
IsRent(p) ==
    /\ Selected(p)
    /\ p.frequency = "monthly"
    /\ p.due_day = 1
    /\ p.amount = RentAmount
    /\ p.start_date = today - YearBack
    /\ p.end_date = {}

\* the dates a monthly payment p is due inside [today, today+30] and inside
\* its own start_date/end_date interval
MonthlyDue(p) ==
    {d \in today..forecast_end :
        /\ Day(d) = p.due_day
        /\ d >= p.start_date
        /\ (p.end_date # {} => d <= The(p.end_date))}

\* C1: for every reference date the forecast for the Rent payment returns a
\* schedule with exactly one 1200 occurrence inside [today, today+30] and
\* deterministic_spend = 1200.
C1_RentExactlyOnce ==
    (IsRent(payment) /\ pc = "done") =>
        /\ Len(payment_schedule) = 1
        /\ \A i \in 1..Len(payment_schedule) :
              /\ InWindow(payment_schedule[i].date)
              /\ payment_schedule[i].amount = RentAmount
        /\ deterministic_spend = RentAmount

\* C2: for a monthly payment _calculate_occurrences returns exactly the dates
\* of [today, today+30] whose day of month is due_day (within the payment's
\* start_date/end_date); none is missed.
C2_MonthlyExactlyTheDueDates ==
    (payment.frequency = "monthly" /\ pc = "returned") =>
        /\ Range(occurrences) = MonthlyDue(payment)
        /\ Len(occurrences) = Cardinality(MonthlyDue(payment))

\* C3: for every reference date, frequency and due_day the call never raises:
\* a date that cannot be constructed is skipped, also when the cursor advances.
C3_NeverRaises == pc # "raised"

\* C4: every returned date lies in [today, today+30], is not earlier than
\* payment.start_date and, when end_date is set, not later than end_date.
C4_DatesInsideWindowAndValidity ==
    pc = "returned" =>
        \A i \in 1..Len(occurrences) :
            /\ InWindow(occurrences[i])
            /\ occurrences[i] >= payment.start_date
            /\ (payment.end_date # {} => occurrences[i] <= The(payment.end_date))

\* the cursor stands in a month shorter than 31 days
InShortMonth(d) == DaysInMonth(Year(d), Month(d)) < 31

\* C5: a monthly payment with due_day = 31 gets no occurrence from a month of
\* 30 days or fewer: the iteration for that month appends nothing and raises
\* nothing, and no collected date is anything but a 31st (no clamped or
\* rolled-over date).
C5_Day31SkipsShortMonths ==
    /\ [][(InLoop /\ payment.frequency = "monthly" /\ payment.due_day = 31
             /\ InShortMonth(current_date))
          => (occurrences' = occurrences /\ pc' = "loop" /\ error' = "")]_vars
    /\ []((payment.frequency = "monthly" /\ payment.due_day = 31) =>
             \A i \in 1..Len(occurrences) : Day(occurrences[i]) = 31)

\* C5 witness: the call returned after the iteration for a short month
C5_Witness ==
    /\ payment.frequency = "monthly"
    /\ payment.due_day = 31
    /\ pc = "returned"
    /\ prev_date # {}
    /\ InShortMonth(The(prev_date))
    /\ InShortMonth(today)

\* the dates of [today, today+30] on weekday p.due_day, inside the payment's
\* own start_date/end_date interval
WeekdayDue(p) ==
    {d \in today..forecast_end :
        /\ Weekday(d) = p.due_day
        /\ d >= p.start_date
        /\ (p.end_date # {} => d <= The(p.end_date))}

\* C16: for a weekly payment the first occurrence is the earliest date on or
\* after the cursor max(today, start_date) on weekday due_day (the cursor
\* itself when it is that weekday), each later one is exactly 7 days after
\* the previous, so every such weekday of [today, today+30] within the
\* payment's bounds is returned.
C16_WeeklyEveryDueWeekday ==
    (payment.frequency = "weekly" /\ payment.due_day \in 0..6 /\ pc = "returned") =>
        /\ WeekdayDue(payment) \subseteq Range(occurrences)
        /\ \A i \in 1..(Len(occurrences) - 1) :
              occurrences[i + 1] = occurrences[i] + 7
        /\ (occurrences # <<>> /\ Weekday(MaxOf(today, payment.start_date)) = payment.due_day)
              => occurrences[1] = MaxOf(today, payment.start_date)

\* C17: for a biweekly payment the first occurrence is the earliest date on
\* or after the cursor max(today, start_date) on weekday due_day (at most 6
\* days after the cursor), every returned date is on weekday due_day, and
\* consecutive returned dates are exactly 14 days apart.
C17_BiweeklyFromFirstDueWeekday ==
    (payment.frequency = "biweekly" /\ payment.due_day \in 0..6 /\ pc = "returned") =>
        /\ occurrences # <<>> =>
              /\ occurrences[1] >= MaxOf(today, payment.start_date)
              /\ occurrences[1] <= MaxOf(today, payment.start_date) + 6
        /\ \A i \in 1..Len(occurrences) : Weekday(occurrences[i]) = payment.due_day
        /\ \A i \in 1..(Len(occurrences) - 1) :
              occurrences[i + 1] = occurrences[i] + 14

\* calendar months from date a to date b
MonthsBetween(a, b) == (Year(b) - Year(a)) * 12 + Month(b) - Month(a)

\* the dates of [today, today+30] a quarterly (annual) payment that started
\* in the past falls due: day due_day of a month a multiple of 3 months
\* after the start month (the anniversary of start_date), within end_date
CalendarDue(p) ==
    {d \in today..forecast_end :
        /\ d > p.start_date
        /\ (p.end_date # {} => d <= The(p.end_date))
        /\ IF p.frequency = "quarterly"
           THEN /\ Day(d) = p.due_day
                /\ MonthsBetween(p.start_date, d) > 0
                /\ MonthsBetween(p.start_date, d) % 3 = 0
           ELSE /\ Day(d) = Day(p.start_date)
                /\ Month(d) = Month(p.start_date)}

\* C18: a confirmed, active quarterly or annual payment that started in the
\* past and falls due inside [today, today+30] appears in payment_schedule on
\* that date, and its amount is included in deterministic_spend.
C18_QuarterlyAnnualScheduled ==
    (/\ pc = "done"
     /\ Selected(payment)
     /\ payment.frequency \in {"quarterly", "annual"}
     /\ payment.start_date < today) =>
        /\ \A d \in CalendarDue(payment) :
              \E i \in 1..Len(payment_schedule) : payment_schedule[i].date = d
        /\ deterministic_spend >= payment.amount * Cardinality(CalendarDue(payment))

\* C27: the loop of _calculate_occurrences terminates: whenever an iteration
\* completes, the cursor current_date is strictly later than it was at the
\* start of that iteration.
C27_CursorAdvances ==
    (pc = "loop" /\ prev_date # {}) => current_date > The(prev_date)

(***************************************************************************)
(* Claims about the Recurring Pattern Detector (checked under SpecDetect)  *)
(***************************************************************************)
\* the candidates of the result list for description k
PatternsFor(k) == {i \in 1..Len(patterns) : patterns[i].description = k}

\* n >= 3 rows of one identical amount on dates exactly 30 days apart
RegularMonthlyGroup(g) ==
    /\ Len(g) >= 3
    /\ \A i \in 1..Len(g) : g[i].amount = g[1].amount
    /\ \A i \in 1..(Len(g) - 1) : g[i + 1].date - g[i].date = 30

\* C6: whenever one description group has n >= 3 transactions of one amount
\* exactly 30 days apart, whatever the other groups, the call returns exactly
\* one candidate for it: monthly, confidence > 0.7, amount the common amount.
C6_RegularMonthlyDetected ==
    \A j \in 1..Len(Descriptions) :
        (RegularMonthlyGroup(Group(df, Descriptions[j])) /\ pc \in {"returned", "raised"}) =>
            /\ pc = "returned"
            /\ Cardinality(PatternsFor(Descriptions[j])) = 1
            /\ \A i \in PatternsFor(Descriptions[j]) :
                  /\ patterns[i].frequency = "monthly"
                  /\ patterns[i].confidence > ConfidenceMin
                  /\ patterns[i].amount.total
                       = patterns[i].amount.count * Group(df, Descriptions[j])[1].amount

\* some amount of the group deviates from the (positive) group mean by more
\* than amount_tolerance, relative to the mean
HasOutlier(g) ==
    LET total == SumSeq(Amounts(g))
    IN /\ total > 0
       /\ \E i \in 1..Len(g) :
             Abs(g[i].amount * Len(g) - total) * ToleranceDen > ToleranceNum * total

\* C7: a description with a transaction whose amount deviates from the group
\* mean by more than amount_tolerance never appears among the candidates,
\* however regular its dates are.
C7_OutlierGroupNeverEmitted ==
    \A i \in 1..Len(patterns) : ~HasOutlier(Group(df, patterns[i].description))

\* C7 witness: the call returned for a table holding a group of three
\* transactions exactly 30 days apart with one outlying amount
C7_Witness ==
    /\ pc = "returned"
    /\ \E j \in 1..Len(Descriptions) :
          LET g == Group(df, Descriptions[j])
          IN /\ Len(g) >= MinOccurrences
             /\ HasOutlier(g)
             /\ \A i \in 1..(Len(g) - 1) : g[i + 1].date - g[i].date = 30
             /\ PatternsFor(Descriptions[j]) = {}

\* a group of at least min_occurrences rows whose mean amount is zero
ZeroMeanGroup(g) == Len(g) >= MinOccurrences /\ SumSeq(Amounts(g)) = 0

\* C8: when a group of at least min_occurrences rows has mean amount zero, no
\* division by zero happens: the group is not emitted and the call completes.
C8_ZeroMeanNoDivision ==
    \A j \in 1..Len(Descriptions) :
        (ZeroMeanGroup(Group(df, Descriptions[j])) /\ pc \in {"returned", "raised"}) =>
            /\ pc = "returned"
            /\ error = ""
            /\ PatternsFor(Descriptions[j]) = {}

\* the band (lo, hi) of medians contains twice-the-median m2
MedianIn(m2, lo, hi) == 2 * lo <= m2 /\ m2 <= 2 * hi

\* the frequency name the bands of the claim give to twice-the-median m2
BandName(m2) ==
    IF MedianIn(m2, 5, 9) THEN "weekly"
    ELSE IF MedianIn(m2, 11, 17) THEN "biweekly"
    ELSE IF MedianIn(m2, 25, 35) THEN "monthly"
    ELSE IF MedianIn(m2, 84, 98) THEN "quarterly"
    ELSE IF MedianIn(m2, 351, 379) THEN "annual"
    ELSE ""

\* C19 (checked under SpecFrequency): _detect_frequency names a non-empty gap
\* list by its median m: weekly iff 5 <= m <= 9, biweekly iff 11 <= m <= 17,
\* monthly iff 25 <= m <= 35, quarterly iff 84 <= m <= 98, annual iff
\* 351 <= m <= 379, nothing otherwise; at most one band of the table matches
\* a median, so the order of the tests does not matter.
C19_FrequencyBands ==
    pc \in {"classified", "returned"} =>
        /\ frequency = BandName(Median2(intervals))
        /\ Cardinality({b \in 1..Len(FrequencyBands) :
                           Abs(Median2(intervals) - 2 * FrequencyBands[b][1])
                               <= 2 * FrequencyBands[b][2]}) <= 1

\* C19 witness: a list classified by a median on the upper edge of a band
C19_Witness ==
    /\ pc = "classified"
    /\ frequency = "annual"
    /\ Median2(intervals) = 2 * 379

\* the expected gap of a frequency class
ExpectedGap(f) ==
    CASE f = "weekly" -> 7
      [] f = "biweekly" -> 14
      [] f = "monthly" -> 30
      [] f = "quarterly" -> 91
      [] f = "annual" -> 365
      [] OTHER -> 0

\* c (in 1/10000) is max(0, 1 - std/mean - |mean - expected|/expected) of the
\* gaps iv, to within 0.02: the coefficient of variation is bracketed in
\* hundredths by squaring, std being the population deviation
IsConfidenceOf(c, iv, e) ==
    LET n == Len(iv)
        total == SumSeq(iv)
        v == n * SumSquares(iv) - total * total
        err == (Abs(total - n * e) * 10000) \div (n * e)
    IN /\ e > 0
       /\ total > 0
       /\ \E k \in 0..100 :
             /\ (k * total) * (k * total) <= 10000 * v
             /\ 10000 * v < ((k + 1) * total) * ((k + 1) * total)
             /\ Abs(c - MaxOf(0, 10000 - 100 * k - err)) <= 200

\* C20 (checked under SpecDetect): every emitted candidate has confidence
\* max(0, 1 - std(gaps)/mean(gaps) - |mean(gaps) - expected|/expected) with
\* expected in {7, 14, 30, 91, 365} for its class, strictly above 0.70 and at
\* most 1.0; a group at or below 0.70 is never emitted.
C20_EmittedConfidence ==
    \A i \in 1..Len(patterns) :
        /\ patterns[i].confidence > 7000
        /\ patterns[i].confidence <= 10000
        /\ IsConfidenceOf(patterns[i].confidence,
                          Intervals(Group(df, patterns[i].description)),
                          ExpectedGap(patterns[i].frequency))

\* C20 witness: the call returned a candidate whose gaps are not all equal to
\* the expected gap, so that both terms of the formula count
C20_Witness ==
    /\ pc = "returned"
    /\ \E i \in 1..Len(patterns) :
          /\ patterns[i].confidence < 10000
          /\ \E j, k \in 1..Len(Intervals(Group(df, patterns[i].description))) :
                Intervals(Group(df, patterns[i].description))[j]
                    # Intervals(Group(df, patterns[i].description))[k]

\* the ids of the loaded rows whose description is exactly k
IdsOf(k) == {df[j].id : j \in {n \in 1..Len(df) : df[n].description = k}}

\* C21: in every result, each candidate stands for a description whose group
\* has at least min_occurrences rows; occurrences is the number of its
\* transaction_ids, which are exactly the ids of the loaded rows with that
\* description; the candidates have distinct descriptions and share no id.
C21_CandidatesPartitionGroups ==
    /\ \A i \in 1..Len(patterns) :
          /\ Len(Group(df, patterns[i].description)) >= MinOccurrences
          /\ patterns[i].occurrences = Len(patterns[i].transaction_ids)
          /\ Cardinality(Range(patterns[i].transaction_ids)) = patterns[i].occurrences
          /\ Range(patterns[i].transaction_ids) = IdsOf(patterns[i].description)
    /\ \A i, j \in 1..Len(patterns) :
          i # j =>
              /\ patterns[i].description # patterns[j].description
              /\ Range(patterns[i].transaction_ids)
                    \cap Range(patterns[j].transaction_ids) = {}

\* C21 witness: a result with two candidates
C21_Witness ==
    /\ pc = "returned"
    /\ Len(patterns) = 2

\* at least two rows, all on one date: every gap is zero
SameDateGroup(g) == Len(g) >= 2 /\ \A i \in 1..Len(g) : g[i].date = g[1].date

\* C22: a description group whose rows all fall on one date is never a
\* candidate, and no division by a zero mean gap happens: its median gap 0
\* lies in no band, so _calculate_confidence is not reached, and
\* _calculate_confidence itself returns 0 for its gaps.
C22_SameDateGroupNotEmitted ==
    \A j \in 1..Len(Descriptions) :
        SameDateGroup(Group(df, Descriptions[j])) =>
            /\ PatternsFor(Descriptions[j]) = {}
            /\ DetectFrequency(Intervals(Group(df, Descriptions[j]))) = ""
            /\ \A f \in Frequencies :
                  CalculateConfidence(Intervals(Group(df, Descriptions[j])), f) = 0

\* C22 witness: the call returned for a table whose first description has
\* min_occurrences rows of one non-zero amount, all on one date
C22_Witness ==
    /\ pc = "returned"
    /\ LET g == Group(df, Descriptions[1])
       IN /\ Len(g) >= MinOccurrences
          /\ SameDateGroup(g)
          /\ \A i \in 1..Len(g) : g[i].amount = g[1].amount /\ g[i].amount > 0
          /\ PatternsFor(Descriptions[1]) = {}

\* at least min_occurrences rows of one non-zero amount whose gaps all equal
\* one value lying inside a frequency band
EqualGapGroup(g) ==
    /\ Len(g) >= MinOccurrences
    /\ \A i \in 1..Len(g) : g[i].amount = g[1].amount /\ g[i].amount # 0
    /\ \A i \in 1..(Len(g) - 1) : g[i + 1].date - g[i].date = g[2].date - g[1].date
    /\ BandName(2 * (g[2].date - g[1].date)) # ""

\* C30: a description group of at least min_occurrences rows of one non-zero
\* amount with all gaps equal to a value inside a band is emitted by
\* detect_recurring_patterns with that band's frequency and a confidence
\* above 0.70.
C30_EqualGapGroupEmitted ==
    \A j \in 1..Len(Descriptions) :
        LET g == Group(df, Descriptions[j])
        IN (EqualGapGroup(g) /\ pc \in {"returned", "raised"}) =>
              /\ pc = "returned"
              /\ \E i \in PatternsFor(Descriptions[j]) :
                    /\ patterns[i].frequency = BandName(2 * (g[2].date - g[1].date))
                    /\ patterns[i].confidence > ConfidenceMin

(***************************************************************************)
(* Claims about the Anomaly Detector (checked under SpecAnomaly)           *)
(***************************************************************************)
\* the days of the dense discretionary series
SeriesDays(rows) == SeriesStart(rows)..SeriesEnd(rows)

ReportedDates == {anomalies[i].date : i \in 1..Len(anomalies)}

\* the day's amount is strictly above rolling_mean + n_std * rolling_std
AboveThreshold(rows, d) ==
    ExceedsThreshold(DayAmount(rows, d), WinCount(rows, d, window),
                     WinSum(rows, d, window), WinSumSq(rows, d, window), n_std)

\* C9: a day of the dense discretionary series is reported if and only if its
\* amount is strictly above its threshold and strictly above zero; a
\* zero-spend day is never reported, and an all-zero series gives an empty
\* list without any error.
C9_ReportedIffAboveThresholdAndPositive ==
    pc # "start" =>
        LET rows == Discretionary(df)
        IN /\ pc = "returned"
           /\ error = ""
           /\ rows = <<>> => anomalies = <<>>
           /\ rows # <<>> =>
                /\ \A d \in SeriesDays(rows) :
                      (d \in ReportedDates) <=>
                          (AboveThreshold(rows, d) /\ DayAmount(rows, d) > 0)
                /\ \A i \in 1..Len(anomalies) :
                      /\ anomalies[i].date \in SeriesDays(rows)
                      /\ anomalies[i].amount > 0
                /\ (\A d \in SeriesDays(rows) : DayAmount(rows, d) = 0)
                      => anomalies = <<>>

\* day d alone differs from an otherwise flat series, and lies above it
SingleSpike(rows, d) ==
    /\ SeriesEnd(rows) > SeriesStart(rows)
    /\ \A e, f \in SeriesDays(rows) \ {d} : DayAmount(rows, e) = DayAmount(rows, f)
    /\ \A e \in SeriesDays(rows) \ {d} : DayAmount(rows, d) > DayAmount(rows, e)

\* the day's amount is at least mean + 3 * std of the whole series
Extreme(rows, d) ==
    LET n == Cardinality(SeriesDays(rows))
        sum == SumOver(rows, SeriesDays(rows), FALSE)
        sumsq == SumOver(rows, SeriesDays(rows), TRUE)
        dev == n * DayAmount(rows, d) - sum
    IN dev >= 0 /\ dev * dev * (n - 1) >= 9 * n * ScaledVar(n, sum, sumsq)

\* C10: in an otherwise flat series the one day carrying an extreme value
\* (>= mean + 3 std) is reported under the defaults n_std = 2.0, window = 30,
\* at any position of the series including the first days.  Stated of the
\* calls that return.
C10_SpikeFlaggedAnywhere ==
    (pc = "returned" /\ n_std = DefaultNStd /\ window = DefaultWindow
       /\ Discretionary(df) # <<>>) =>
        \A d \in SeriesDays(Discretionary(df)) :
            (SingleSpike(Discretionary(df), d) /\ Extreme(Discretionary(df), d))
                => d \in ReportedDates

\* the loaded rows that are not flagged is_recurring
NonRecurring(t) == SelectSeq(t, LAMBDA r : r.is_recurring = FALSE)

\* C23: rows flagged is_recurring have no influence on detect_anomalies: the
\* reported days are days that are anomalous in the table with the flagged
\* rows taken out, each anomaly's window statistics are those of that table,
\* its transactions are exactly the unflagged rows of its date, and their
\* amounts sum to its amount.
C23_RecurringRowsIgnored ==
    \A i \in 1..Len(anomalies) :
        LET a == anomalies[i]
            rows == NonRecurring(df)
        IN /\ IsAnomaly(rows, a.date, n_std, window)
           /\ a.count = WinCount(rows, a.date, window)
           /\ a.sum = WinSum(rows, a.date, window)
           /\ a.sumsq = WinSumSq(rows, a.date, window)
           /\ a.transactions = SelectSeq(df, LAMBDA r : ~r.is_recurring /\ r.date = a.date)
           /\ a.amount = SumSeq([n \in 1..Len(a.transactions) |-> a.transactions[n].amount])

\* C23 witness: an anomaly reported for a date that also holds a row flagged
\* is_recurring
C23_Witness ==
    /\ pc = "returned"
    /\ \E i \in 1..Len(anomalies) :
          \E n \in 1..Len(df) : df[n].is_recurring /\ df[n].date = anomalies[i].date

\* C24: for every reported anomaly, z_score is (amount - rolling_mean) /
\* rolling_std when rolling_std > 0 and 0 otherwise, also when the deviation
\* is undefined; the division is never made with a zero or undefined divisor.
C24_ZScoreGuarded ==
    \A i \in 1..Len(anomalies) :
        LET a == anomalies[i]
            positive == a.count >= 2 /\ a.count * a.sumsq - a.sum * a.sum > 0
        IN /\ a.z_score.divided <=> positive
           /\ a.z_score.divided =>
                 /\ a.z_score.num = <<a.count * a.amount - a.sum, a.count>>
                 /\ a.z_score.den2 =
                       <<a.count * a.sumsq - a.sum * a.sum, a.count * (a.count - 1)>>
                 /\ a.z_score.den2[1] > 0 /\ a.z_score.den2[2] > 0

\* C24 witness: a reported anomaly whose z-score is a quotient
C24_Witness ==
    /\ pc = "returned"
    /\ \E i \in 1..Len(anomalies) :
          anomalies[i].z_score.divided /\ anomalies[i].z_score.num[1] > 0

(***************************************************************************)
(* Claims about a session of analyzer calls (checked under SpecSession)    *)
(***************************************************************************)
\* every row of the table is flagged is_recurring (so does the empty table)
AllRecurring(t) == \A i \in 1..Len(t) : t[i].is_recurring

\* the result with avg_daily_spending = threshold = std = 0
IsZeroThreshold(info) ==
    /\ info.avg_daily_spending[1] = 0 /\ info.avg_daily_spending[2] # 0
    /\ info.variance[1] = 0 /\ info.variance[2] # 0
    /\ info.threshold.avg[1] = 0 /\ info.threshold.avg[2] # 0
    /\ info.threshold.variance[1] = 0 /\ info.threshold.variance[2] # 0

C15_DatasetUntouched ==
    /\ [][df' = df]_vars
    /\ [][threshold_info.called => threshold_info' = threshold_info]_vars

\* C15 witness: the threshold call returned a second time, after calls of the
\* detectors, on a table holding recurring and discretionary rows
C15_Witness ==
    /\ pc = "returned"
    /\ history = <<"calculate_spending_threshold", "detect_anomalies",
                   "calculate_spending_threshold">>
    /\ ~AllRecurring(df)
    /\ \E i \in 1..Len(df) : df[i].is_recurring
    /\ ~IsZeroThreshold(threshold_info)

\* two fractions <<numerator, denominator>> of one value
SameFraction(a, b) == a[1] * b[2] = b[1] * a[2]

\* the dates that hold a row not flagged is_recurring
SpendingDates(t) == {t[i].date : i \in {n \in 1..Len(t) : ~t[n].is_recurring}}

\* the sum of the unflagged amounts of date d
SpentOn(t, d) ==
    SumSeq(Amounts(SelectSeq(t, LAMBDA r : ~r.is_recurring /\ r.date = d)))

\* the sum over the dates of (n * sum of the date - total)^2, which is n^2
\* times the sum of the squared deviations from the mean total / n
RECURSIVE SquaredDeviations(_, _, _, _)
SquaredDeviations(t, dates, n, total) ==
    IF dates = {} THEN 0
    ELSE LET d == CHOOSE x \in dates : TRUE
         IN (n * SpentOn(t, d) - total) * (n * SpentOn(t, d) - total)
               + SquaredDeviations(t, dates \ {d}, n, total)

\* C25: calculate_spending_threshold returns avg_daily_spending = the total
\* of the unflagged amounts divided by the number of distinct dates holding
\* an unflagged row (dates without one are not counted as zero days), std =
\* the sample deviation of the per-date sums, threshold = avg + 2 * std.
C25_ThresholdOverSpendingDates ==
    (threshold_info.called /\ SpendingDates(df) # {}) =>
        LET n == Cardinality(SpendingDates(df))
            total == SumSeq(Amounts(NonRecurring(df)))
        IN /\ threshold_info.avg_daily_spending = <<total, n>>
           /\ SameFraction(threshold_info.variance,
                           <<SquaredDeviations(df, SpendingDates(df), n, total),
                             n * n * (n - 1)>>)
           /\ threshold_info.threshold.avg = threshold_info.avg_daily_spending
           /\ threshold_info.threshold.n_std = 2
           /\ threshold_info.threshold.variance = threshold_info.variance

\* C25 witness: a threshold computed over unflagged rows on two dates that
\* are not consecutive days, in a table that also holds flagged rows
C25_Witness ==
    /\ threshold_info.called
    /\ Cardinality(SpendingDates(df)) = 2
    /\ \E d \in SpendingDates(df) : d + 1 \notin SpendingDates(df) /\ d + 3 \in SpendingDates(df)
    /\ \E i \in 1..Len(df) : df[i].is_recurring

\* the number of calendar days from the earliest to the latest row of t
CalendarSpan(t) ==
    LET dates == {t[i].date : i \in 1..Len(t)}
    IN (CHOOSE hi \in dates : \A d \in dates : d <= hi)
         - (CHOOSE lo \in dates : \A d \in dates : lo <= d) + 1

\* C26: analyze_seasonality returns the insufficient-data error exactly when
\* the table is non-empty and its daily series, one point per calendar day
\* from the earliest to the latest row, has fewer than 14 points; the result
\* carries trend, seasonal, residual or seasonality_strength only when the
\* series has at least 30 points, and has_strong_seasonality is false
\* whenever it has fewer.
C26_SeasonalityThresholds ==
    seasonality.called =>
        /\ seasonality.error = "Insufficient data"
              <=> (df # <<>> /\ CalendarSpan(df) < 14)
        /\ seasonality.keys \cap {"trend", "seasonal", "residual", "seasonality_strength"} # {}
              => (df # <<>> /\ CalendarSpan(df) >= 30)
        /\ (df = <<>> \/ CalendarSpan(df) < 30) => ~seasonality.has_strong_seasonality

\* C26 witness: a result without error and without decomposition fields,
\* for a table of two rows whose dates span exactly 14 days
C26_Witness ==
    /\ seasonality.called
    /\ Len(df) = 2
    /\ CalendarSpan(df) = 14
    /\ seasonality.error = ""
    /\ seasonality.keys = {"daily_spending", "mean", "std", "has_strong_seasonality"}

\* C29: whenever the table holds a row not flagged is_recurring, also when
\* all such rows fall on one date, calculate_spending_threshold returns
\* defined numbers with std >= 0 and threshold >= avg_daily_spending >= 0.
C29_ThresholdDefined ==
    (threshold_info.called /\ SpendingDates(df) # {}) =>
        /\ threshold_info.avg_daily_spending[2] > 0
        /\ threshold_info.avg_daily_spending[1] >= 0
        /\ threshold_info.variance[2] > 0
        /\ threshold_info.variance[1] >= 0
        /\ threshold_info.threshold.variance[2] > 0


(***************************************************************************)
(* Claims on the forecast result (SpecForecastSpend)                       *)
(***************************************************************************)
ScheduleTotal == SumSeq([i \in 1..Len(payment_schedule) |-> payment_schedule[i].amount])

\* C12: in every result of forecast_next_month, deterministic_spend is the
\* sum of the amounts of the payment_schedule entries, projected_discretionary
\* is 30 times avg_daily_discretionary, and total_forecast is
\* deterministic_spend + projected_discretionary.
C12_ResultTotals ==
    pc = "finished" =>
        /\ deterministic_spend = ScheduleTotal
        /\ SameFraction(projected_discretionary,
                        <<30 * avg_daily_discretionary[1], avg_daily_discretionary[2]>>)
        /\ total_forecast[2] # 0
        /\ total_forecast[1] * projected_discretionary[2] =
              (deterministic_spend * projected_discretionary[2]
                  + projected_discretionary[1]) * total_forecast[2]

\* a result with scheduled payments and a non-zero discretionary average
C12_Witness ==
    /\ pc = "finished"
    /\ Len(payment_schedule) >= 2
    /\ avg_daily_discretionary[1] > 0
    /\ avg_daily_discretionary[2] > 1

\* the rows dated within [today - 90, today]
TrailingWindow(rows) ==
    SelectSeq(rows, LAMBDA r : r.date >= today - TrailingDays /\ r.date <= today)

\* C13: the forecast's avg_daily_discretionary depends only on the
\* non-recurring transactions dated within [today - 90, today]: it is the
\* average computed over those rows alone, whatever rows dated before
\* today - 90 or after today the table holds.
C13_OnlyTrailingWindow ==
    pc = "finished" =>
        SameFraction(avg_daily_discretionary,
                     SpendingThreshold(LoadData(TrailingWindow(transactions))).avg_daily_spending)


(***************************************************************************)
(* Claims on detection, confirmation and the forecast (SpecWorkflow)       *)
(***************************************************************************)
\* schedule entry e is an occurrence of payment row p
EntryOf(e, p) == e.name = p.name /\ e.amount = p.amount

FromConfirmedActive(e) ==
    \E i \in 1..Len(recurring_payments) :
        /\ recurring_payments[i].is_active
        /\ recurring_payments[i].confirmed_by_user
        /\ EntryOf(e, recurring_payments[i])

\* a step that serves a reject request
RejectStep ==
    /\ request'.action = "reject"
    /\ Len(pending') = Len(pending) - 1

\* C14: after any sequence of detect, confirm and reject requests, every
\* entry of the forecast's payment_schedule comes from a RecurringPayment row
\* with is_active and confirmed_by_user, and deterministic_spend is the sum
\* of those entries, so nothing pending or rejected contributes; a reject
\* only deletes the pending confirmation: it creates no RecurringPayment and
\* flags no transaction.
C14_OnlyConfirmedActiveScheduled ==
    /\ [](\A i \in 1..Len(payment_schedule) : FromConfirmedActive(payment_schedule[i]))
    /\ [](pc = "finished" => deterministic_spend = ScheduleTotal)
    /\ [][RejectStep =>
            /\ recurring_payments' = recurring_payments
            /\ transactions' = transactions]_vars

\* a forecast made right after a rejection: the rejected description has no
\* payment row, another pattern is pending again, and the schedule holds the
\* occurrences of a confirmed detected payment
C14_Witness ==
    /\ pc = "finished"
    /\ request.action = "reject"
    /\ \A i \in 1..Len(recurring_payments) :
          recurring_payments[i].name # request.description
    /\ pending # <<>>
    /\ \E i \in 1..Len(payment_schedule) : payment_schedule[i].name = Descriptions[1]
    /\ \E i \in 1..Len(recurring_payments) : ~recurring_payments[i].confirmed_by_user

\* C28: whatever detect and confirm requests are served over an unchanged
\* transaction set, a pattern (description, amount) has at most one pending
\* confirmation at a time and at most one RecurringPayment, and once it has
\* a RecurringPayment no detection run leaves a pending confirmation for it.
C28_PatternConfirmedOnce ==
    /\ \A i, j \in 1..Len(pending) :
          (pending[i].description = pending[j].description
             /\ pending[i].amount = pending[j].amount) => i = j
    /\ \A i, j \in 1..Len(recurring_payments) :
          (recurring_payments[i].name = recurring_payments[j].name
             /\ recurring_payments[i].amount = recurring_payments[j].amount) => i = j
    /\ \A i \in 1..Len(pending) : \A j \in 1..Len(recurring_payments) :
          ~(recurring_payments[j].name = pending[i].description
              /\ recurring_payments[j].amount = pending[i].amount)

====
